---- MODULE Spec2Model ----
(***************************************************************************)
(* Model of resources.py: the authorize_api decorator, the query-string    *)
(* driven response shaping of ModelResourceUtils (dehydrate,               *)
(* alter_list_data_to_serialize) and the multipart put/patch adapters of   *)
(* MultipartResource.                                                      *)
(***************************************************************************)
EXTENDS Integers, Sequences, FiniteSets, TLC

VARIABLES
    authentication,  \* resource._meta.authentication (shared by all calls)
    custom_auth,     \* per wrapped view: the custom_auth given to authorize_api
    pc,              \* per call: the statement of _wrapped_view about to run
    request,         \* per call: the (request, args, kwargs) it was called with
    resource_auth,   \* per call: the local variable resource_auth
    pending,         \* per call: how the try statement is being left
    outcome,         \* per call: how _wrapped_view was left
    log,             \* per call: the collaborators invoked, in order
    seen,            \* per call: authentication observed at start/auth/view/exit
    bundle,          \* dehydrate: the bundle (request.GET and data)
    dehydrated,      \* dehydrate: the call's input data and how it ended
    list_call,       \* alter_list_data_to_serialize: request.GET, data, result
    mp_request,      \* put_detail/patch_detail: request.META and attributes
    mp_calls         \* put_detail/patch_detail: calls made and superclass calls

vars == <<authentication, custom_auth, pc, request, resource_auth, pending,
          outcome, log, seen, bundle, dehydrated, list_call, mp_request,
          mp_calls>>

authVars == <<authentication, custom_auth, pc, request, resource_auth,
              pending, outcome, log, seen>>
dehydrateVars == <<bundle, dehydrated>>
listVars == <<list_call>>
multipartVars == <<mp_request, mp_calls>>
otherVars == <<dehydrateVars, listVars, multipartVars>>

-----------------------------------------------------------------------------
(* Python values shared by the parts of the model.                         *)

None == [type |-> "NoneType"]

Str(s) == [type |-> "str", v |-> s]

List(s) == [type |-> "list", v |-> s]

\* Python truth value of None, a string or a list
Truthy(x) == x.type # "NoneType" /\ x.v # <<>>

\* dict.get(key, default) on a mapping modelled as a function
Get(d, key, default) == IF key \in DOMAIN d THEN d[key] ELSE default

EmptyDict == [k \in {} |-> None]

-----------------------------------------------------------------------------
(* authorize_api                                                           *)

NumViews == 2

Views == 1..NumViews

Original == "resource_auth_policy"

\* authorize_api(resource, allowed_methods) without custom_auth
NoCustomAuth == "None"

CustomPolicies == {"custom_auth_A", "custom_auth_B"}

Requests == {"request1", "request2"}

ImmediateHttpResponse(r) == [type |-> "ImmediateHttpResponse", response |-> r]

OtherException == [type |-> "Exception", response |-> "none"]

Responses == {"HttpUnauthorized", "HttpTooManyRequests"}

Exceptions == {ImmediateHttpResponse(r) : r \in Responses} \cup {OtherException}

ViewResponse == "view_response"

NoResult == [kind |-> "none"]

Returned(v) == [kind |-> "return", value |-> v]

Raised(e) == [kind |-> "raise", exc |-> e]

Ok == [kind |-> "ok"]

CheckResults == {Ok} \cup {Raised(e) : e \in Exceptions}

NoSeen == [start |-> "unset", auth |-> "unset", view |-> "unset", exit |-> "unset"]

Called(op, req, res) == [op |-> op, req |-> req, res |-> res]

\* leaving _wrapped_view: record the result and the policy then installed
Leave(v, res, auth) ==
    /\ pc' = [pc EXCEPT ![v] = "done"]
    /\ outcome' = [outcome EXCEPT ![v] = res]
    /\ seen' = [seen EXCEPT ![v].exit = auth]

InitAuth ==
    /\ authentication = Original
    /\ custom_auth \in [Views -> {NoCustomAuth} \cup CustomPolicies]
    /\ pc = [v \in Views |-> "idle"]
    /\ request = [v \in Views |-> "none"]
    /\ resource_auth = [v \in Views |-> "unset"]
    /\ pending = [v \in Views |-> NoResult]
    /\ outcome = [v \in Views |-> NoResult]
    /\ log = [v \in Views |-> <<>>]
    /\ seen = [v \in Views |-> NoSeen]

\* the framework calls _wrapped_view(request, *args, **kwargs)
Call(v) ==
    /\ pc[v] = "idle"
    /\ \E r \in Requests : request' = [request EXCEPT ![v] = r]
    /\ pc' = [pc EXCEPT ![v] = "method_check"]
    /\ seen' = [seen EXCEPT ![v].start = authentication]
    /\ UNCHANGED <<authentication, custom_auth, resource_auth, pending,
                   outcome, log>>
    /\ UNCHANGED otherVars

\* method_check with its exception swallowed: the checks go on regardless
MethodCheck_Swallowed(v) ==
    /\ pc[v] = "method_check"
    /\ \E res \in CheckResults :
          log' = [log EXCEPT ![v] = Append(@, Called("method_check", request[v], res))]
    /\ pc' = [pc EXCEPT ![v] = "throttle_check"]
    /\ UNCHANGED <<authentication, custom_auth, request, resource_auth, pending,
                   outcome, seen>>
    /\ UNCHANGED otherVars

\* resource.method_check(request, allowed_methods)
MethodCheck(v) ==
    /\ pc[v] = "method_check"
    /\ \E res \in CheckResults :
          /\ log' = [log EXCEPT ![v] = Append(@, Called("method_check", request[v], res))]
          /\ IF res = Ok
                THEN /\ pc' = [pc EXCEPT ![v] = "throttle_check"]
                     /\ UNCHANGED <<outcome, seen>>
                ELSE Leave(v, res, authentication)
    /\ UNCHANGED <<authentication, custom_auth, request, resource_auth, pending>>
    /\ UNCHANGED otherVars

\* resource.throttle_check(request)
ThrottleCheck(v) ==
    /\ pc[v] = "throttle_check"
    /\ \E res \in CheckResults :
          /\ log' = [log EXCEPT ![v] = Append(@, Called("throttle_check", request[v], res))]
          /\ IF res = Ok
                THEN /\ pc' = [pc EXCEPT ![v] = "save_auth"]
                     /\ UNCHANGED <<outcome, seen>>
                ELSE Leave(v, res, authentication)
    /\ UNCHANGED <<authentication, custom_auth, request, resource_auth, pending>>
    /\ UNCHANGED otherVars

\* resource_auth = resource._meta.authentication
SaveAuth(v) ==
    /\ pc[v] = "save_auth"
    /\ resource_auth' = [resource_auth EXCEPT ![v] = authentication]
    /\ pc' = [pc EXCEPT ![v] = "set_custom_auth"]
    /\ UNCHANGED <<authentication, custom_auth, request, pending, outcome, log, seen>>
    /\ UNCHANGED otherVars

\* if custom_auth: resource._meta.authentication = custom_auth
SetCustomAuth(v) ==
    /\ pc[v] = "set_custom_auth"
    /\ authentication' = IF custom_auth[v] # NoCustomAuth THEN custom_auth[v]
                                                         ELSE authentication
    /\ pc' = [pc EXCEPT ![v] = "is_authenticated"]
    /\ UNCHANGED <<custom_auth, request, resource_auth, pending, outcome, log, seen>>
    /\ UNCHANGED otherVars

\* try: resource.is_authenticated(request)
IsAuthenticated(v) ==
    /\ pc[v] = "is_authenticated"
    /\ \E res \in CheckResults :
          /\ log' = [log EXCEPT ![v] = Append(@, Called("is_authenticated", request[v], res))]
          /\ pending' = [pending EXCEPT ![v] = res]
          /\ pc' = [pc EXCEPT ![v] = IF res = Ok THEN "finally" ELSE "except"]
    /\ seen' = [seen EXCEPT ![v].auth = authentication]
    /\ UNCHANGED <<authentication, custom_auth, request, resource_auth, outcome>>
    /\ UNCHANGED otherVars

\* a bare except clause
Caught_Any(e) == TRUE

\* the except clause matches ImmediateHttpResponse only
Caught(e) == e.type = "ImmediateHttpResponse"

\* the handler re-raising instead of returning ex.response
Except_Reraise(v) ==
    /\ pc[v] = "except"
    /\ pc' = [pc EXCEPT ![v] = "finally"]
    /\ UNCHANGED <<authentication, custom_auth, request, resource_auth, pending,
                   outcome, log, seen>>
    /\ UNCHANGED otherVars

\* except ImmediateHttpResponse, ex: return ex.response
Except(v) ==
    /\ pc[v] = "except"
    /\ pending' = [pending EXCEPT ![v] =
                      IF Caught(@.exc) THEN Returned(@.exc.response) ELSE @]
    /\ pc' = [pc EXCEPT ![v] = "finally"]
    /\ UNCHANGED <<authentication, custom_auth, request, resource_auth, outcome, log, seen>>
    /\ UNCHANGED otherVars

\* the restore written after the try statement instead of in its finally
Finally_RestoreAfterTry(v) ==
    /\ pc[v] = "finally"
    /\ IF pending[v] = Ok
          THEN /\ authentication' = resource_auth[v]
               /\ pc' = [pc EXCEPT ![v] = "view_func"]
               /\ UNCHANGED <<outcome, seen>>
          ELSE /\ UNCHANGED authentication
               /\ Leave(v, pending[v], authentication)
    /\ UNCHANGED <<custom_auth, request, resource_auth, pending, log>>
    /\ UNCHANGED otherVars

\* finally: resource._meta.authentication = resource_auth, then the pending
\* return or exception is carried out, or control falls through to the view
Finally(v) ==
    /\ pc[v] = "finally"
    /\ authentication' = resource_auth[v]
    /\ IF pending[v] = Ok
          THEN /\ pc' = [pc EXCEPT ![v] = "view_func"]
               /\ UNCHANGED <<outcome, seen>>
          ELSE Leave(v, pending[v], authentication')
    /\ UNCHANGED <<custom_auth, request, resource_auth, pending, log>>
    /\ UNCHANGED otherVars

\* return view_func(request, *args, **kwargs)
ViewFunc(v) ==
    /\ pc[v] = "view_func"
    /\ \E res \in {Returned(ViewResponse), Raised(OtherException)} :
          /\ log' = [log EXCEPT ![v] = Append(@, Called("view_func", request[v], res))]
          /\ pc' = [pc EXCEPT ![v] = "done"]
          /\ outcome' = [outcome EXCEPT ![v] = res]
    /\ seen' = [seen EXCEPT ![v].view = authentication, ![v].exit = authentication]
    /\ UNCHANGED <<authentication, custom_auth, request, resource_auth, pending>>
    /\ UNCHANGED otherVars

\* the call's frame is gone; the view can be called again
Finish(v) ==
    /\ pc[v] = "done"
    /\ pc' = [pc EXCEPT ![v] = "idle"]
    /\ request' = [request EXCEPT ![v] = "none"]
    /\ resource_auth' = [resource_auth EXCEPT ![v] = "unset"]
    /\ pending' = [pending EXCEPT ![v] = NoResult]
    /\ outcome' = [outcome EXCEPT ![v] = NoResult]
    /\ log' = [log EXCEPT ![v] = <<>>]
    /\ seen' = [seen EXCEPT ![v] = NoSeen]
    /\ UNCHANGED <<authentication, custom_auth>>
    /\ UNCHANGED otherVars

Running(v) == pc[v] \notin {"idle", "done"}

\* one request at a time: a call starts only when no other call is running
CallAlone(v) ==
    /\ \A w \in Views : ~Running(w)
    /\ Call(v)

\* several requests in flight: a call starts whatever the others are doing
CallInterleaved(v) == Call(v)

-----------------------------------------------------------------------------
(* ModelResourceUtils.dehydrate                                            *)

MaxLen == 3

\* the characters query-string values are made of
Alphabet == {"a", "b", ","}

Strings(chars) == UNION {[1..n -> chars] : n \in 0..MaxLen}

FieldNames == {<<"a">>, <<"b">>, <<"a", "b">>}

FieldValues == {"value1", "value2"}

\* request.GET holding any of the given parameters, with string values
QueryDicts(params, chars) ==
    UNION {[ps -> {Str(s) : s \in Strings(chars)}] : ps \in SUBSET params}

SepPositions(s, sep) == {i \in 1..Len(s) : s[i] = sep}

Min(S) == CHOOSE i \in S : \A j \in S : i <= j

\* the string taken as one name, separators and all
Split_Whole(s, sep) == <<s>>

RECURSIVE Split(_, _)
\* str.split(sep): the pieces between separators, empty pieces included
Split(s, sep) ==
    IF SepPositions(s, sep) = {}
       THEN <<s>>
       ELSE LET i == Min(SepPositions(s, sep))
            IN  <<SubSeq(s, 1, i - 1)>> \o Split(SubSeq(s, i + 1, Len(s)), sep)

Elements(seq) == {seq[i] : i \in 1..Len(seq)}

\* exclude_fields consulted first, include_fields only without it
IncludeFields_ExcludeFirst(b) ==
    LET include_fields == Get(b.GET, "include_fields", None)
        exclude_fields == Get(b.GET, "exclude_fields", List(<<>>))
    IN  IF Truthy(exclude_fields)
           THEN (DOMAIN b.data) \ Elements(Split(exclude_fields.v, ","))
           ELSE Elements(Split(include_fields.v, ","))

\* the names the dict comprehension iterates over (lines 48-53)
IncludeFields(b) ==
    LET include_fields == Get(b.GET, "include_fields", None)
        exclude_fields == Get(b.GET, "exclude_fields", List(<<>>))
    IN  IF ~Truthy(include_fields)
           THEN (DOMAIN b.data) \ Elements(Split(exclude_fields.v, ","))
           ELSE Elements(Split(include_fields.v, ","))

\* dehydrate(bundle): the bundle afterwards and whether the call raised
dehydrate(b) ==
    LET include_fields == Get(b.GET, "include_fields", None)
        exclude_fields == Get(b.GET, "exclude_fields", List(<<>>))
    IN  IF ~Truthy(exclude_fields) /\ ~Truthy(include_fields)
           THEN [end |-> "returned", bundle |-> b]
           ELSE IF IncludeFields(b) \subseteq DOMAIN b.data
                   THEN [end |-> "returned",
                         bundle |-> [b EXCEPT !.data =
                                        [k \in IncludeFields(b) |-> b.data[k]]]]
                   ELSE [end |-> "KeyError", bundle |-> b]

InitDehydrate ==
    /\ bundle \in [GET : QueryDicts({"include_fields", "exclude_fields"}, Alphabet),
                   data : UNION {[ks -> FieldValues] : ks \in SUBSET FieldNames}]
    /\ dehydrated = [end |-> "not called", data |-> bundle.data]

Dehydrate ==
    /\ dehydrated.end = "not called"
    /\ bundle' = dehydrate(bundle).bundle
    /\ dehydrated' = [dehydrated EXCEPT !.end = dehydrate(bundle).end]
    /\ UNCHANGED <<authVars, listVars, multipartVars>>

-----------------------------------------------------------------------------
(* ModelResourceUtils.alter_list_data_to_serialize                         *)

\* the characters meta_only values are made of
FlagAlphabet == {"0", "1"}

MetaValues == {"meta1", "meta2", "meta3"}

ObjectsValues == {"objects1", "objects2"}

\* alter_list_data_to_serialize(request, data): the value returned
alter_list_data_to_serialize(GET, data) ==
    IF Truthy(Get(GET, "meta_only", None))
       THEN [k \in {"meta"} |-> data[k]]
       ELSE data

InitList ==
    list_call \in [GET : QueryDicts({"meta_only"}, FlagAlphabet),
                   data : [meta : MetaValues, objects : ObjectsValues],
                   result : {NoResult}]

AlterListData ==
    /\ list_call.result = NoResult
    /\ list_call' = [list_call EXCEPT !.result =
                        Returned(alter_list_data_to_serialize(list_call.GET,
                                                              list_call.data))]
    /\ UNCHANGED <<authVars, dehydrateVars, multipartVars>>

-----------------------------------------------------------------------------
(* MultipartResource.put_detail / patch_detail                             *)

MaxCalls == 2

MultipartPrefix ==
    <<"m", "u", "l", "t", "i", "p", "a", "r", "t", "/", "f", "o", "r", "m",
      "-", "d", "a", "t", "a">>

MultipartBoundary ==
    <<"m", "u", "l", "t", "i", "p", "a", "r", "t", "/", "f", "o", "r", "m",
      "-", "d", "a", "t", "a", ";", " ", "b", "o", "u", "n", "d", "a", "r",
      "y", "=", "x">>

MultipartTruncated ==
    <<"m", "u", "l", "t", "i", "p", "a", "r", "t", "/", "f", "o", "r", "m",
      "-", "d", "a", "t">>

MultipartInside ==
    <<"t", "e", "x", "t", "/", "m", "u", "l", "t", "i", "p", "a", "r", "t",
      "/", "f", "o", "r", "m", "-", "d", "a", "t", "a">>

MultipartUpper ==
    <<"M", "u", "l", "t", "i", "p", "a", "r", "t", "/", "f", "o", "r", "m",
      "-", "d", "a", "t", "a">>

Json ==
    <<"a", "p", "p", "l", "i", "c", "a", "t", "i", "o", "n", "/", "j", "s",
      "o", "n">>

ContentTypes ==
    {MultipartPrefix, MultipartBoundary, MultipartTruncated, MultipartInside,
     MultipartUpper, Json, <<>>}

Bodies == {<<>>, <<"r", "a", "w">>}

Kwargs == {"pk=1", "pk=2"}

\* str.startswith(prefix)
StartsWith(s, prefix) ==
    /\ Len(s) >= Len(prefix)
    /\ SubSeq(s, 1, Len(prefix)) = prefix

\* hasattr(obj, name) on an object modelled by its attribute mapping
HasAttr(attrs, name) == name \in DOMAIN attrs

\* the condition without its hasattr test
NeedsBody_Always(req) ==
    StartsWith(Get(req.META, "CONTENT_TYPE", Str(<<>>)).v, MultipartPrefix)

\* the condition of lines 121 and 126
NeedsBody(req) ==
    /\ StartsWith(Get(req.META, "CONTENT_TYPE", Str(<<>>)).v, MultipartPrefix)
    /\ ~HasAttr(req.attrs, "_body")

\* the request as put_detail / patch_detail hand it to the superclass
WithBody(req) ==
    IF NeedsBody(req)
       THEN [req EXCEPT !.attrs = [k \in {"_body"} |-> Str(<<>>)]]
       ELSE req

InitMultipart ==
    /\ mp_request \in
          [META : UNION {[ks -> {Str(c) : c \in ContentTypes}] :
                           ks \in SUBSET {"CONTENT_TYPE"}},
           attrs : UNION {[ks -> {Str(b) : b \in Bodies}] :
                            ks \in SUBSET {"_body"}}]
    /\ mp_calls = [made |-> <<>>, super |-> <<>>]

\* the bookkeeping of one handler call: the request it was given and the
\* superclass call it made
Delegated(method, before, after, kwargs) ==
    [made |-> Append(mp_calls.made,
                     [method |-> method, request |-> before, kwargs |-> kwargs]),
     super |-> Append(mp_calls.super,
                      [method |-> method, request |-> after, kwargs |-> kwargs])]

\* put_detail(request, **kwargs)
PutDetail ==
    /\ Len(mp_calls.made) < MaxCalls
    /\ mp_request' = WithBody(mp_request)
    /\ \E kwargs \in Kwargs :
          mp_calls' = Delegated("put_detail", mp_request, mp_request', kwargs)
    /\ UNCHANGED <<authVars, dehydrateVars, listVars>>

\* patch_detail(request, **kwargs)
PatchDetail ==
    /\ Len(mp_calls.made) < MaxCalls
    /\ mp_request' = WithBody(mp_request)
    /\ \E kwargs \in Kwargs :
          mp_calls' = Delegated("patch_detail", mp_request, mp_request', kwargs)
    /\ UNCHANGED <<authVars, dehydrateVars, listVars>>

-----------------------------------------------------------------------------
(* Specifications: each part of the module runs on its own, the state of   *)
(* the other parts staying at rest.                                        *)

RestAuth ==
    /\ authentication = Original
    /\ custom_auth = [v \in Views |-> NoCustomAuth]
    /\ pc = [v \in Views |-> "idle"]
    /\ request = [v \in Views |-> "none"]
    /\ resource_auth = [v \in Views |-> "unset"]
    /\ pending = [v \in Views |-> NoResult]
    /\ outcome = [v \in Views |-> NoResult]
    /\ log = [v \in Views |-> <<>>]
    /\ seen = [v \in Views |-> NoSeen]

RestDehydrate ==
    /\ bundle = [GET |-> EmptyDict, data |-> EmptyDict]
    /\ dehydrated = [end |-> "not called", data |-> EmptyDict]

RestList ==
    list_call = [GET |-> EmptyDict, data |-> EmptyDict, result |-> NoResult]

RestMultipart ==
    /\ mp_request = [META |-> EmptyDict, attrs |-> EmptyDict]
    /\ mp_calls = [made |-> <<>>, super |-> <<>>]

\* authorize_api, one request at a time
Init == InitAuth /\ RestDehydrate /\ RestList /\ RestMultipart

Next ==
    \E v \in Views :
        \/ CallAlone(v)
        \/ MethodCheck(v)
        \/ ThrottleCheck(v)
        \/ SaveAuth(v)
        \/ SetCustomAuth(v)
        \/ IsAuthenticated(v)
        \/ Except(v)
        \/ Finally(v)
        \/ ViewFunc(v)
        \/ Finish(v)

Spec == Init /\ [][Next]_vars

\* authorize_api, requests interleaved statement by statement
NextInterleaved ==
    \E v \in Views :
        \/ CallInterleaved(v)
        \/ MethodCheck(v)
        \/ ThrottleCheck(v)
        \/ SaveAuth(v)
        \/ SetCustomAuth(v)
        \/ IsAuthenticated(v)
        \/ Except(v)
        \/ Finally(v)
        \/ ViewFunc(v)
        \/ Finish(v)

SpecInterleaved == Init /\ [][NextInterleaved]_vars

\* dehydrate on every bundle within the bounds
InitDehydrateOnly == RestAuth /\ InitDehydrate /\ RestList /\ RestMultipart

NextDehydrate == Dehydrate

SpecDehydrate == InitDehydrateOnly /\ [][NextDehydrate]_vars

\* alter_list_data_to_serialize on every request and data within the bounds
InitListOnly == RestAuth /\ RestDehydrate /\ InitList /\ RestMultipart

NextList == AlterListData

SpecList == InitListOnly /\ [][NextList]_vars

\* put_detail and patch_detail, in any order, on one request
InitMultipartOnly == RestAuth /\ RestDehydrate /\ RestList /\ InitMultipart

NextMultipart == PutDetail \/ PatchDetail

SpecMultipart == InitMultipartOnly /\ [][NextMultipart]_vars

-----------------------------------------------------------------------------
(* Properties of authorize_api                                             *)

OwnPolicy(v) == IF custom_auth[v] # NoCustomAuth THEN custom_auth[v] ELSE Original

Ops(v) == [i \in 1..Len(log[v]) |-> log[v][i].op]

CheckOrder == <<"method_check", "throttle_check", "is_authenticated", "view_func">>

\* C1: in every call, resource._meta.authentication has the value it had
\* when the call started at the moment view_func is invoked and at the
\* moment the wrapper returns or raises, whatever the checks did.
C1_AuthenticationRestored ==
    \A v \in Views :
        /\ seen[v].view # "unset" => seen[v].view = seen[v].start
        /\ pc[v] = "done" => seen[v].exit = seen[v].start

C1_Witness ==
    \E v \in Views :
        /\ custom_auth[v] # NoCustomAuth
        /\ pc[v] = "done"
        /\ seen[v].auth = custom_auth[v]
        /\ outcome[v] = Raised(OtherException)
        /\ Ops(v) = SubSeq(CheckOrder, 1, 3)

\* C2: with calls interleaved statement by statement, every request is
\* authenticated under its own policy (its custom_auth, or the original
\* policy when it has none), and once no call is running the resource's
\* authentication is the original policy.
C2_NoSharedState ==
    /\ \A v \in Views : seen[v].auth # "unset" => seen[v].auth = OwnPolicy(v)
    /\ (\A v \in Views : ~Running(v)) => authentication = Original

\* C3: the collaborators are invoked in the order method_check,
\* throttle_check, is_authenticated, view_func; each only after every
\* earlier one completed without raising; view_func at most once, with the
\* request the wrapper was called with, and exactly once when the wrapper
\* is left after three successful checks.
C3_OrderedChecks ==
    \A v \in Views :
        /\ Len(log[v]) <= Len(CheckOrder)
        /\ Ops(v) = SubSeq(CheckOrder, 1, Len(log[v]))
        /\ \A i \in 2..Len(log[v]) : log[v][i - 1].res = Ok
        /\ \A i \in 1..Len(log[v]) : log[v][i].req = request[v]
        /\ (pc[v] = "done" /\ Len(log[v]) >= 3 /\ log[v][3].res = Ok)
              => Len(log[v]) = 4

C3_Witness ==
    \E v \in Views :
        /\ pc[v] = "done"
        /\ Ops(v) = CheckOrder
        /\ outcome[v] = Returned(ViewResponse)

\* C4: when is_authenticated raises ImmediateHttpResponse, the wrapper
\* returns the response it carries, does not raise, and view_func is not
\* invoked.
C4_RejectionReturned ==
    \A v \in Views : \A r \in Responses :
        (/\ pc[v] = "done"
         /\ Len(log[v]) >= 3
         /\ log[v][3].res = Raised(ImmediateHttpResponse(r)))
        => /\ outcome[v] = Returned(r)
           /\ Len(log[v]) = 3

C4_Witness ==
    \E v \in Views :
        /\ pc[v] = "done"
        /\ Len(log[v]) = 3
        /\ log[v][3].res = Raised(ImmediateHttpResponse("HttpUnauthorized"))

\* C5: an exception raised by method_check, throttle_check or view_func,
\* or an exception other than ImmediateHttpResponse raised by
\* is_authenticated, leaves the wrapper as that same exception, and no
\* collaborator is invoked after the one that raised.
C5_OthersPropagate ==
    \A v \in Views : \A i \in 1..Len(log[v]) : \A e \in Exceptions :
        (/\ pc[v] = "done"
         /\ log[v][i].res = Raised(e)
         /\ ~(log[v][i].op = "is_authenticated" /\ e.type = "ImmediateHttpResponse"))
        => /\ outcome[v] = Raised(e)
           /\ i = Len(log[v])

C5_Witness ==
    /\ \E v \in Views :
          /\ pc[v] = "done"
          /\ Len(log[v]) = 2
          /\ log[v][2].res = Raised(ImmediateHttpResponse("HttpTooManyRequests"))
    /\ \E v \in Views :
          /\ pc[v] = "done"
          /\ Len(log[v]) = 4
          /\ log[v][4].res = Raised(OtherException)

-----------------------------------------------------------------------------
(* Properties of dehydrate                                                 *)

\* the names a comma-separated value lists: its maximal comma-free pieces
Listed(s) ==
    {SubSeq(s, i, j) : <<i, j>> \in
        {ij \in (1..Len(s) + 1) \X (0..Len(s)) :
            /\ ij[2] >= ij[1] - 1
            /\ ij[1] = 1 \/ s[ij[1] - 1] = ","
            /\ ij[2] = Len(s) \/ s[ij[2] + 1] = ","
            /\ \A k \in ij[1]..ij[2] : s[k] # ","}}

\* a query parameter given with a non-empty value
Given(param) == param \in DOMAIN bundle.GET /\ bundle.GET[param].v # <<>>

DehydrateCalled == dehydrated.end # "not called"

SameValues ==
    \A k \in DOMAIN bundle.data :
        k \in DOMAIN dehydrated.data /\ bundle.data[k] = dehydrated.data[k]

\* C6: with a non-empty include_fields whose names are all keys of
\* bundle.data, dehydrate returns the bundle with exactly the listed names
\* as keys, each with its former value, whether or not exclude_fields is
\* given as well.
C6_IncludeExactly ==
    (/\ DehydrateCalled
     /\ Given("include_fields")
     /\ Listed(bundle.GET["include_fields"].v) \subseteq DOMAIN dehydrated.data)
    => /\ dehydrated.end = "returned"
       /\ DOMAIN bundle.data = Listed(bundle.GET["include_fields"].v)
       /\ SameValues

C6_Witness ==
    /\ DehydrateCalled
    /\ bundle.GET = [include_fields |-> Str(<<"a", ",", "b">>),
                     exclude_fields |-> Str(<<"a">>)]
    /\ DOMAIN dehydrated.data = FieldNames
    /\ DOMAIN bundle.data = {<<"a">>, <<"b">>}

\* C7: with a non-empty exclude_fields and no include_fields, dehydrate
\* returns the bundle with the original keys minus the listed names, values
\* unchanged, listed names that are no keys being ignored; with neither
\* parameter, or both empty, bundle.data is unchanged.
C7_ExcludeRemoves ==
    /\ (DehydrateCalled /\ Given("exclude_fields") /\ ~Given("include_fields"))
         => /\ dehydrated.end = "returned"
            /\ DOMAIN bundle.data =
                  (DOMAIN dehydrated.data) \ Listed(bundle.GET["exclude_fields"].v)
            /\ SameValues
    /\ (DehydrateCalled /\ ~Given("exclude_fields") /\ ~Given("include_fields"))
         => /\ dehydrated.end = "returned"
            /\ bundle.data = dehydrated.data

C7_Witness ==
    /\ DehydrateCalled
    /\ bundle.GET = [exclude_fields |-> Str(<<"a", ",", "b">>)]
    /\ DOMAIN dehydrated.data = {<<"a">>, <<"a", "b">>}
    /\ DOMAIN bundle.data = {<<"a", "b">>}

\* C8: for every combination of include_fields and exclude_fields,
\* including names that are no keys of bundle.data, dehydrate completes
\* without raising and the resulting keys are a subset of the former keys.
C8_NeverRaises ==
    DehydrateCalled
    => /\ dehydrated.end = "returned"
       /\ DOMAIN bundle.data \subseteq DOMAIN dehydrated.data

-----------------------------------------------------------------------------
(* Properties of put_detail / patch_detail                                 *)

\* the content types of the model that start with multipart/form-data
MultipartTypes == {MultipartPrefix, MultipartBoundary}

IsMultipart(req) ==
    /\ "CONTENT_TYPE" \in DOMAIN req.META
    /\ req.META["CONTENT_TYPE"].v \in MultipartTypes

\* C9: put_detail and patch_detail call the superclass method of the same
\* name exactly once with the same request and kwargs; the request then has
\* _body = '' when its CONTENT_TYPE starts with multipart/form-data and it
\* had no _body, and is as it was in every other case.
C9_BodyThenDelegate ==
    /\ Len(mp_calls.super) = Len(mp_calls.made)
    /\ \A i \in 1..Len(mp_calls.made) :
          LET call == mp_calls.made[i]
              super == mp_calls.super[i]
          IN  /\ super.method = call.method
              /\ super.kwargs = call.kwargs
              /\ super.request.META = call.request.META
              /\ super.request.attrs =
                    IF IsMultipart(call.request) /\ DOMAIN call.request.attrs = {}
                       THEN [_body |-> Str(<<>>)]
                       ELSE call.request.attrs
    /\ Len(mp_calls.super) > 0
         => mp_request = mp_calls.super[Len(mp_calls.super)].request

C9_Witness ==
    /\ Len(mp_calls.made) = 2
    /\ mp_calls.made[1].method = "put_detail"
    /\ mp_calls.made[2].method = "patch_detail"
    /\ mp_calls.made[1].request =
          [META |-> [CONTENT_TYPE |-> Str(MultipartBoundary)], attrs |-> EmptyDict]
    /\ mp_calls.super[1].request.attrs = [_body |-> Str(<<>>)]
    /\ mp_calls.super[2].request = mp_calls.super[1].request

-----------------------------------------------------------------------------
(* Properties of alter_list_data_to_serialize                              *)

TrueFlags == {<<"1">>}

FalseFlags == {<<>>, <<"0">>}

\* C10: the result is the mapping with the single key meta when meta_only
\* carries a boolean-true flag value, and the data unchanged when meta_only
\* is absent or carries a boolean-false flag value.
C10_MetaOnlyFlag ==
    list_call.result # NoResult
    => LET GET == list_call.GET
       IN  /\ ("meta_only" \in DOMAIN GET /\ GET["meta_only"].v \in TrueFlags)
                => list_call.result = Returned([meta |-> list_call.data["meta"]])
           /\ ("meta_only" \notin DOMAIN GET \/ GET["meta_only"].v \in FalseFlags)
                => list_call.result = Returned(list_call.data)

====
